---- MODULE Spec2Model ----
(***************************************************************************)
(* Model of the parameter registry (lintorch EditableModule) and of the    *)
(* configuration / gradient assembly of xitorch's solve_ivp.               *)
(*                                                                         *)
(* Tensors are modelled by their identity (what Python's id() returns):    *)
(* two list entries are "the identical tensor object" iff they are the     *)
(* same number.  None is the identity 0.  List positions are 0-based, as   *)
(* in the source; a Python list l is a TLA+ sequence and l[i] is At(l, i). *)
(***************************************************************************)
EXTENDS Integers, Sequences, FiniteSets, TLC

\* ------------------------------------------------------------------ bounds
\* number of distinct tensor objects the caller has at hand
NTensors == 2
\* how many index computations per method the history counter can tell apart
MaxComputes == 2

\* longest parameter list (user params followed by object params) of a solve
MaxParams == 2
\* longest time grid of a solve
MaxNt == 3
MaxDepth == 2
MaxClones == 4

None == 0
Tensors == 1..NTensors

\* ------------------------------------------------------------ Python lists
At(l, i) == l[i + 1]

\* all lists of length n over S
ListsOf(S, n) == [1..n -> S]

\* all lists over S of length 0..n
ListsUpTo(S, n) == UNION {ListsOf(S, k) : k \in 0..n}

\* list.index(x): the first position holding x, or -1 where Python raises ValueError
ListIndex(l, x) == IF \E k \in 1..Len(l) : l[k] = x
                   THEN (CHOOSE k \in 1..Len(l) : l[k] = x /\ \A h \in 1..(k - 1) : l[h] # x) - 1
                   ELSE -1

\* d[k] = v on a dict modelled as a function whose domain is the set of keys
DictSet(d, k, v) == [x \in (DOMAIN d) \cup {k} |-> IF x = k THEN v ELSE d[x]]

\* ------------------------------------------------- the editable object
\* The concrete EditableModule subclass: one slot list per operation.
MethodNames == {"forward", "transpose"}

NParams(methodname) == IF methodname = "forward" THEN 3 ELSE 1

VARIABLES
    obj,        \* the object: its slots and the three lazily created dicts
    pc,         \* the caller's position w.r.t. a useparams scope
    scope,      \* the live generator frame of useparams
    traced,     \* tb.print_exc() ran in the scope that last exited
    last,       \* history: the call the top-level caller made last
    computes,   \* history: how often each method's index was computed
    computedFrom, \* history: the identity pattern each index was computed from
    ivp         \* one solve_ivp call: its inputs, its ctx, where it stands

regvars == <<obj, pc, scope, traced, last, computes, computedFrom>>

vars == <<obj, pc, scope, traced, last, computes, computedFrom, ivp>>

\* getparams of the concrete subclass: the operation's slots, in order
getparams(self, methodname) == self.params[methodname]

\* setparams of the concrete subclass: takes the first NParams tensors of an
\* excessive list, writes them to the slots in order, returns how many it set
setparams(self, methodname, params) ==
    LET n == NParams(methodname)
    IN  [self |-> [self EXCEPT !.params[methodname] = SubSeq(params, 1, n)],
         ret  |-> n,
         err  |-> "none"]

\* a plausible slip: an id is looked for at the end of ids only, so that only
\* adjacent positions are recognised as aliases
RECURSIVE UniqueLoopAdjacent(_, _, _, _, _)
UniqueLoopAdjacent(allparams, i, ids, idxs, idx_map) ==
    IF i >= Len(allparams)
    THEN [idxs |-> idxs, idx_map |-> idx_map]
    ELSE LET id_param == At(allparams, i)
         IN  IF Len(ids) > 0 /\ ids[Len(ids)] = id_param
             THEN UniqueLoopAdjacent(allparams, i + 1, ids, idxs,
                             [idx_map EXCEPT ![Len(ids)] = Append(@, i)])
             ELSE UniqueLoopAdjacent(allparams, i + 1, Append(ids, id_param),
                             Append(idxs, i), Append(idx_map, <<i>>))

\* the loop of _get_unique_params_idxs from position i on
RECURSIVE UniqueLoop(_, _, _, _, _)
UniqueLoop(allparams, i, ids, idxs, idx_map) ==
    IF i >= Len(allparams)
    THEN [idxs |-> idxs, idx_map |-> idx_map]
    ELSE LET id_param == At(allparams, i)
             jfound   == ListIndex(ids, id_param)
         IN  IF jfound >= 0
             THEN UniqueLoop(allparams, i + 1, ids, idxs,
                             [idx_map EXCEPT ![jfound + 1] = Append(@, i)])
             ELSE UniqueLoop(allparams, i + 1, Append(ids, id_param),
                             Append(idxs, i), Append(idx_map, <<i>>))

\* the index a computation from scratch gives for a parameter list
FreshIndex(allparams) == UniqueLoop(allparams, 0, <<>>, <<>>, <<>>)

\* a plausible slip: the cached entry is ignored and the index recomputed
get_unique_params_idxs_nocache(self, methodname, allparams) ==
    LET u == FreshIndex(allparams)
    IN  [self |-> [self EXCEPT
                     !.has_unique_params_idxs = TRUE,
                     !.number_of_params  = DictSet(@, methodname, Len(allparams)),
                     !.unique_params_idxs = DictSet(@, methodname, u.idxs),
                     !.unique_params_maps = DictSet(@, methodname, u.idx_map)],
         ret |-> u.idxs,
         computed |-> TRUE]

\* _get_unique_params_idxs: the cached index of the method, computed on a miss
get_unique_params_idxs(self, methodname, allparams) ==
    IF self.has_unique_params_idxs /\ methodname \in DOMAIN self.unique_params_idxs
    THEN [self |-> self, ret |-> self.unique_params_idxs[methodname], computed |-> FALSE]
    ELSE LET u == FreshIndex(allparams)
         IN  [self |-> [self EXCEPT
                          !.has_unique_params_idxs = TRUE,
                          !.number_of_params  = DictSet(@, methodname, Len(allparams)),
                          !.unique_params_idxs = DictSet(@, methodname, u.idxs),
                          !.unique_params_maps = DictSet(@, methodname, u.idx_map)],
              ret |-> u.idxs,
              computed |-> TRUE]

\* a plausible slip: the j-th unique parameter is read at position j instead of
\* at the j-th first-occurrence position idxs[j]
getuniqueparams_byrank(self, methodname) ==
    LET allparams == getparams(self, methodname)
        r == get_unique_params_idxs(self, methodname, allparams)
    IN  [self |-> r.self,
         ret  |-> [j \in 1..Len(r.ret) |-> allparams[j]],
         err  |-> "none",
         computed |-> r.computed]

\* getuniqueparams: the slots at the index's first-occurrence positions
getuniqueparams(self, methodname) ==
    LET allparams == getparams(self, methodname)
        r == get_unique_params_idxs(self, methodname, allparams)
    IN  [self |-> r.self,
         ret  |-> [j \in 1..Len(r.ret) |-> At(allparams, r.ret[j])],
         err  |-> "none",
         computed |-> r.computed]

\* a plausible slip: only the first position of each alias group is written
ExpandFirstOnly(maps, uniqueparams, j, allparams) ==
    IF j >= Len(uniqueparams)
    THEN allparams
    ELSE [k \in 1..Len(allparams) |->
             IF \E jj \in 1..Len(uniqueparams) : At(maps[jj], 0) = k - 1
             THEN uniqueparams[CHOOSE jj \in 1..Len(uniqueparams) : At(maps[jj], 0) = k - 1]
             ELSE allparams[k]]

\* the loops of setuniqueparams from j on: the j-th supplied tensor is written
\* to every position of the j-th alias group
RECURSIVE ExpandLoop(_, _, _, _)
ExpandLoop(maps, uniqueparams, j, allparams) ==
    IF j >= Len(uniqueparams)
    THEN allparams
    ELSE LET jmap == At(maps, j)
             p    == At(uniqueparams, j)
         IN  ExpandLoop(maps, uniqueparams, j + 1,
                        [k \in 1..Len(allparams) |->
                            IF \E h \in 1..Len(jmap) : jmap[h] = k - 1
                            THEN p ELSE allparams[k]])

\* setuniqueparams: reads the cached dicts (never builds them)
setuniqueparams(self, methodname, uniqueparams) ==
    IF ~self.has_unique_params_idxs
    THEN [self |-> self, ret |-> None, err |-> "AttributeError"]
    ELSE IF methodname \notin DOMAIN self.number_of_params
    THEN [self |-> self, ret |-> None, err |-> "KeyError"]
    ELSE LET nparams == self.number_of_params[methodname]
             maps    == self.unique_params_maps[methodname]
         IN  IF Len(uniqueparams) > Len(maps)
             THEN [self |-> self, ret |-> None, err |-> "IndexError"]
             ELSE setparams(self, methodname,
                            ExpandLoop(maps, uniqueparams, 0, [k \in 1..nparams |-> None]))

\* useparams up to its yield: the generator's frame after  __enter__
\*   yielded: the block runs;  otherwise the generator ended without yielding
\*   and contextlib raises RuntimeError out of the with statement
useparams_enter(self, methodname, params) ==
    LET g == getuniqueparams(self, methodname)
        s == setuniqueparams(g.self, methodname, params)
    IN  IF s.err = "none"
        THEN [self |-> s.self, orig |-> g.ret, yielded |-> TRUE, traced |-> FALSE,
              computed |-> g.computed]
        ELSE \* except Exception: print_exc();  finally: restore
             [self |-> setuniqueparams(s.self, methodname, g.ret).self,
              orig |-> g.ret, yielded |-> FALSE, traced |-> TRUE,
              computed |-> g.computed]

\* a plausible slip: the restore sits after the yield instead of in finally
useparams_exit_nofinally(self, methodname, orig, thrown) ==
    [self   |-> IF thrown = "none" THEN setuniqueparams(self, methodname, orig).self ELSE self,
     traced |-> (thrown = "Exception"),
     raised |-> (thrown = "BaseException")]

\* a plausible slip: the handler traces the exception and raises it again
useparams_exit_reraise(self, methodname, orig, thrown) ==
    [self   |-> setuniqueparams(self, methodname, orig).self,
     traced |-> (thrown = "Exception"),
     raised |-> (thrown # "none")]

\* useparams from its yield on, the block having ended with `thrown`:
\*   "none" (completed), "Exception" (an Exception subclass is thrown into the
\*   generator), "BaseException" (KeyboardInterrupt and the like)
useparams_exit(self, methodname, orig, thrown) ==
    [self   |-> setuniqueparams(self, methodname, orig).self,
     traced |-> (thrown = "Exception"),
     raised |-> (thrown = "BaseException")]

\* ---- the debugging functions.  In the concrete subclass every slot of an
\* operation is an attribute of the object, those of "forward" first.
MethodOrder == <<"forward", "transpose">>

\* the slots of the object in the order of obj.__dict__
RECURSIVE SlotsFrom(_)
SlotsFrom(n) ==
    IF n > Len(MethodOrder) THEN <<>>
    ELSE [k \in 1..NParams(MethodOrder[n]) |-> [m |-> MethodOrder[n], k |-> k]]
         \o SlotsFrom(n + 1)

\* where _get_tensors and _set_tensors find a tensor: the slots that hold one
\* (a slot holding None is no tensor and is passed over)
tensor_slots(self) ==
    SelectSeq(SlotsFrom(1), LAMBDA a : self.params[a.m][a.k] # None)

\* _get_tensors(obj): the tensors of the object, in the order of its attributes
get_tensors(self) ==
    LET slots == tensor_slots(self)
    IN  [j \in 1..Len(slots) |-> self.params[slots[j].m][slots[j].k]]

\* _set_tensors(obj, all_params): the j-th tensor attribute takes the j-th of
\* all_params
set_tensors(self, all_params) ==
    LET slots == tensor_slots(self)
    IN  [self EXCEPT !.params =
            [m \in MethodNames |->
                [k \in 1..Len(self.params[m]) |->
                    IF \E j \in 1..Len(slots) : slots[j] = [m |-> m, k |-> k]
                    THEN all_params[CHOOSE j \in 1..Len(slots) : slots[j] = [m |-> m, k |-> k]]
                    ELSE self.params[m][k]]]]

\* list_operating_params(method): the method runs, every tensor of the object
\* is replaced by a clone of its own (the j-th clone is the new tensor
\* base + j), the method runs again and autograd.grad is taken, and only then
\* are the tensors put back.
\*   fails: "never", "first" (the first run raises), "second" (the second run
\*   or autograd.grad raises: the clones stay)
list_operating_params(self, base, fails) ==
    LET all_tensors  == get_tensors(self)
        copy_tensors == [j \in 1..Len(all_tensors) |-> base + j]
        cloned       == set_tensors(self, copy_tensors)
    IN  IF fails = "first" THEN [self |-> self, raised |-> TRUE]
        ELSE IF fails = "second" THEN [self |-> cloned, raised |-> TRUE]
        ELSE [self |-> set_tensors(cloned, all_tensors), raised |-> FALSE]

\* find_missing_parameters(method): list_operating_params, then
\* getuniqueparams of the method's name
find_missing_parameters(self, methodname, base, fails) ==
    LET l == list_operating_params(self, base, fails)
        g == getuniqueparams(l.self, methodname)
    IN  IF l.raised
        THEN [self |-> l.self, raised |-> TRUE, computed |-> FALSE]
        ELSE [self |-> g.self, raised |-> FALSE, computed |-> g.computed]

\* ------------------------------------------------------------- solve_ivp
\* Option values are opaque to solve_ivp, except the method name; both are
\* strings, written as the sequences of their characters.  A dict is a
\* function whose domain is its set of keys.
OptionKeys == {"method", "rtol"}

\* the strings in use, as the sequences of their characters
rk4 == <<"r", "k", "4">>

rk38 == <<"r", "k", "3", "8">>

rk23 == <<"r", "k", "2", "3">>

rk45 == <<"r", "k", "4", "5">>

RK45 == <<"R", "K", "4", "5">>

Rk45 == <<"R", "k", "4", "5">>

rk99 == <<"r", "k", "9", "9">>

MethodValues == {rk4, RK45, Rk45, rk99}

RtolValues == {<<"1", "e", "-", "3">>}

OptionDicts ==
    {d \in UNION {[D -> MethodValues \cup RtolValues] : D \in SUBSET OptionKeys} :
        /\ "method" \in DOMAIN d => d["method"] \in MethodValues
        /\ "rtol" \in DOMAIN d => d["rtol"] \in RtolValues}

\* A character is a one-character string; one outside Latin-1, or one that a
\* string cannot hold, is named by its code point ("U+212A", "U+0060").  The strings of the model are over ASCII, Latin-1
\* and the code points named below; on these Lower is str.lower().

\* the characters with the Unicode property Cased
Cased ==
    {"A", "B", "C", "D", "E", "F", "G", "H", "I", "J", "K", "L",
     "M", "N", "O", "P", "Q", "R", "S", "T", "U", "V", "W", "X",
     "Y", "Z", "a", "b", "c", "d", "e", "f", "g", "h", "i", "j",
     "k", "l", "m", "n", "o", "p", "q", "r", "s", "t", "u", "v",
     "w", "x", "y", "z", "ª", "µ", "º", "À", "Á", "Â", "Ã", "Ä",
     "Å", "Æ", "Ç", "È", "É", "Ê", "Ë", "Ì", "Í", "Î", "Ï", "Ð",
     "Ñ", "Ò", "Ó", "Ô", "Õ", "Ö", "Ø", "Ù", "Ú", "Û", "Ü", "Ý",
     "Þ", "ß", "à", "á", "â", "ã", "ä", "å", "æ", "ç", "è", "é",
     "ê", "ë", "ì", "í", "î", "ï", "ð", "ñ", "ò", "ó", "ô", "õ",
     "ö", "ø", "ù", "ú", "û", "ü", "ý", "þ", "ÿ", "U+0130", "U+0391", "U+03A3",
     "U+03B1", "U+03C2", "U+03C3", "U+212A", "U+212B"}

\* the characters with the Unicode property Case_Ignorable
CaseIgnorable ==
    {"'", ".", ":", "^", "U+0060", "¨", "­", "¯", "´", "·", "¸", "U+0307"}

\* the lower-case mapping of one character, which may be longer than one
LowerChar(c) ==
    CASE c = "A" -> <<"a">>
      [] c = "B" -> <<"b">>
      [] c = "C" -> <<"c">>
      [] c = "D" -> <<"d">>
      [] c = "E" -> <<"e">>
      [] c = "F" -> <<"f">>
      [] c = "G" -> <<"g">>
      [] c = "H" -> <<"h">>
      [] c = "I" -> <<"i">>
      [] c = "J" -> <<"j">>
      [] c = "K" -> <<"k">>
      [] c = "L" -> <<"l">>
      [] c = "M" -> <<"m">>
      [] c = "N" -> <<"n">>
      [] c = "O" -> <<"o">>
      [] c = "P" -> <<"p">>
      [] c = "Q" -> <<"q">>
      [] c = "R" -> <<"r">>
      [] c = "S" -> <<"s">>
      [] c = "T" -> <<"t">>
      [] c = "U" -> <<"u">>
      [] c = "V" -> <<"v">>
      [] c = "W" -> <<"w">>
      [] c = "X" -> <<"x">>
      [] c = "Y" -> <<"y">>
      [] c = "Z" -> <<"z">>
      [] c = "À" -> <<"à">>
      [] c = "Á" -> <<"á">>
      [] c = "Â" -> <<"â">>
      [] c = "Ã" -> <<"ã">>
      [] c = "Ä" -> <<"ä">>
      [] c = "Å" -> <<"å">>
      [] c = "Æ" -> <<"æ">>
      [] c = "Ç" -> <<"ç">>
      [] c = "È" -> <<"è">>
      [] c = "É" -> <<"é">>
      [] c = "Ê" -> <<"ê">>
      [] c = "Ë" -> <<"ë">>
      [] c = "Ì" -> <<"ì">>
      [] c = "Í" -> <<"í">>
      [] c = "Î" -> <<"î">>
      [] c = "Ï" -> <<"ï">>
      [] c = "Ð" -> <<"ð">>
      [] c = "Ñ" -> <<"ñ">>
      [] c = "Ò" -> <<"ò">>
      [] c = "Ó" -> <<"ó">>
      [] c = "Ô" -> <<"ô">>
      [] c = "Õ" -> <<"õ">>
      [] c = "Ö" -> <<"ö">>
      [] c = "Ø" -> <<"ø">>
      [] c = "Ù" -> <<"ù">>
      [] c = "Ú" -> <<"ú">>
      [] c = "Û" -> <<"û">>
      [] c = "Ü" -> <<"ü">>
      [] c = "Ý" -> <<"ý">>
      [] c = "Þ" -> <<"þ">>
      [] c = "U+212A" -> <<"k">>
      [] c = "U+212B" -> <<"å">>
      [] c = "U+0130" -> <<"i", "U+0307">>
      [] c = "U+0391" -> <<"U+03B1">>
      [] c = "U+03A3" -> <<"U+03C3">>
      [] OTHER -> <<c>>

\* a capital sigma at position k is a final sigma: a cased character comes
\* before it and none after it, characters that are case-ignorable apart
FinalSigma(str, k) ==
    /\ \E j \in 1..(k - 1) :
           str[j] \in Cased /\ \A h \in (j + 1)..(k - 1) : str[h] \in CaseIgnorable
    /\ ~\E j \in (k + 1)..Len(str) :
           str[j] \in Cased /\ \A h \in (k + 1)..(j - 1) : str[h] \in CaseIgnorable

\* str.lower() from position k on
RECURSIVE LowerFrom(_, _)
LowerFrom(str, k) ==
    IF k > Len(str) THEN <<>>
    ELSE (IF str[k] = "U+03A3" /\ FinalSigma(str, k)
          THEN <<"U+03C2">> ELSE LowerChar(str[k])) \o LowerFrom(str, k + 1)

\* str.lower()
Lower(str) == LowerFrom(str, 1)

\* the keys of the solver table of forward
Solvers == {rk4, rk38, rk23, rk45}

\* set_default_option(defopt, opt): a copy of defopt updated with opt
set_default_option(defopt, opt) ==
    [k \in (DOMAIN defopt) \cup (DOMAIN opt) |->
        IF k \in DOMAIN opt THEN opt[k] ELSE defopt[k]]

\* dict.pop(key) for a key the dict holds: the dict without the key
DictPop(d, key) == [k \in (DOMAIN d) \ {key} |-> d[k]]

NoError == [type |-> "none", arg |-> <<>>]

\* a plausible slip: the backward configuration is the caller's bck_options
\* over the defaults alone, without the forward options
forward_bck_config_independent(fwd_options, bck_options) ==
    set_default_option([method |-> rk45], bck_options)

\* ctx.bck_config of forward
forward_bck_config(fwd_options, bck_options) ==
    LET config == set_default_option([method |-> rk45], fwd_options)
    IN  set_default_option(config, bck_options)

\* forward up to the solver call: the solver chosen and the options it gets,
\* or what is raised instead
forward(fwd_options, bck_options) ==
    LET config0     == set_default_option([method |-> rk45], fwd_options)
        bck_config  == forward_bck_config(fwd_options, bck_options)
        orig_method == config0["method"]
        config      == DictPop(config0, "method")
        method      == Lower(orig_method)
    IN  IF method \in Solvers
        THEN [ok |-> TRUE, solver |-> method, config |-> config,
              bck_config |-> bck_config, raised |-> NoError]
        ELSE \* except KeyError: the message is formatted from config["method"]
             [ok |-> FALSE, solver |-> <<>>, config |-> config,
              bck_config |-> bck_config,
              raised |-> IF "method" \in DOMAIN config
                         THEN [type |-> "RuntimeError", arg |-> config["method"]]
                         ELSE [type |-> "KeyError", arg |-> <<"m", "e", "t", "h", "o", "d">>]]

\* ---- parameters: "var" is a tensor that requires grad, "tensor" a tensor
\* that does not, "other" anything that is not a tensor
ParamKinds == {"var", "tensor", "other"}

\* TensorNonTensorSeparator(allparams, varonly=True): the positions (0-based)
\* of the tensor parameters and of the others, each in order
RECURSIVE PositionsWhere(_, _, _)
PositionsWhere(kinds, i, want) ==
    IF i >= Len(kinds) THEN <<>>
    ELSE IF (At(kinds, i) = "var") = want
         THEN <<i>> \o PositionsWhere(kinds, i + 1, want)
         ELSE PositionsWhere(kinds, i + 1, want)

tensor_idxs(kinds) == PositionsWhere(kinds, 0, TRUE)

nontensor_idxs(kinds) == PositionsWhere(kinds, 0, FALSE)

\* param_sep.reconstruct_params(tensor_params, nontensor_params): the two
\* lists interleaved back into the original order
reconstruct_params(kinds, tensor_params, nontensor_params) ==
    [k \in 1..Len(kinds) |->
        IF ListIndex(tensor_idxs(kinds), k - 1) >= 0
        THEN At(tensor_params, ListIndex(tensor_idxs(kinds), k - 1))
        ELSE At(nontensor_params, ListIndex(nontensor_idxs(kinds), k - 1))]

\* Python's list[k] for a negative k
PyIndex(n, k) == IF k < 0 THEN n + k ELSE k

\* gradients are symbolic: G("None") is an absent gradient, "zeros" a zero
\* tensor, "adjoint" an adjoint that went through a sub-solve; the adjoint of
\* the k-th tensor parameter carries at = k
G(what) == [g |-> what, at |-> -1]

\* a symbolic gradient taken at grid index k
GAt(what, k) == [g |-> what, at |-> k]

\* a plausible slip: the positions that are not differentiated get zeros
backward_grad_params_zeros(kinds, dLdp) ==
    reconstruct_params(kinds, dLdp, [k \in 1..(Len(kinds) - Len(dLdp)) |-> G("zeros")])

\* the end of backward: grad_params from the parameter adjoints states[dLdp_slice]
backward_grad_params(kinds, dLdp) ==
    LET grad_tensor_params  == dLdp
        grad_ntensor_params == [k \in 1..(Len(kinds) - Len(dLdp)) |-> G("None")]
    IN  reconstruct_params(kinds, grad_tensor_params, grad_ntensor_params)

\* Python's list[a:b] for 0 <= a <= b
Slice(l, a, b) == [k \in 1..((IF b < Len(l) THEN b ELSE Len(l)) - a) |-> l[a + k]]

\* a plausible slip: the grid walked in its own order
ts_noflip(nt) == [k \in 1..nt |-> k - 1]

\* ts.flip(0): the grid indices last to first (a time is named by its index)
ts_flip(nt) == [k \in 1..nt |-> nt - k]

\* a plausible slip: the entry of the earliest time is never written
backward_grad_ts0_skipped(ts_requires_grad, grad_ts, dLdt) == grad_ts

\* after the loop: grad_ts[0] = states[dLdt_index], the accumulated adjointT
backward_grad_ts0(ts_requires_grad, grad_ts, dLdt) ==
    IF ts_requires_grad THEN [grad_ts EXCEPT ![1] = GAt(dLdt.g, 0)] ELSE grad_ts

NoSolve ==
    [pc |-> "Created",
     fwd_options |-> <<>>, bck_options |-> <<>>,
     kinds |-> <<>>, nparams |-> 0, nt |-> 0, ts_requires_grad |-> FALSE,
     bck_config |-> <<>>, solver |-> <<>>, solver_config |-> <<>>,
     raised |-> NoError,
     i |-> 0, t_flip_idx |-> 0,
     y |-> 0, dLdy |-> <<>>, dLdt |-> G("None"), dLdp |-> <<>>,
     grad_ts |-> <<>>, grad_ts_writes |-> <<>>,
     subsolves |-> <<>>,
     grad_y0 |-> <<>>, grad_ts_out |-> G("None"), grad_params |-> <<>>]

\* ------------------------------------------------------- registry actions
\* the frame of the innermost with statement; outer holds the frame of the
\* with statement around it, if any (<<>> or one frame, itself with an outer)
NoScope == [methodname |-> "none", orig |-> <<>>, pre |-> <<>>, thrown |-> "none",
            changed |-> FALSE, outer |-> <<>>]

\* the number of with statements open around the caller
RECURSIVE Depth(_)
Depth(frame) ==
    IF frame.methodname = "none" THEN 0
    ELSE 1 + (IF frame.outer = <<>> THEN 0 ELSE Depth(frame.outer[1]))

\* ---- identity patterns, stated without the index code
\* the first position (1-based) holding the tensor that position k holds
FirstOcc(p, k) == CHOOSE h \in 1..k : p[h] = p[k] /\ \A g \in 1..(h - 1) : p[g] # p[k]

\* the rank of position k's tensor among the distinct tensors, by first occurrence
GroupNo(p, k) == Cardinality({h \in 1..FirstOcc(p, k) : FirstOcc(p, h) = h})

\* the layout of a parameter list: its count and identity pattern
Pattern(p) == [k \in 1..Len(p) |-> GroupNo(p, k)]

Cached(m) == obj.has_unique_params_idxs /\ m \in DOMAIN obj.unique_params_idxs

CachedIndex(m) == [idxs |-> obj.unique_params_idxs[m],
                   idx_map |-> obj.unique_params_maps[m],
                   nparams |-> obj.number_of_params[m]]

\* the layout of m's parameters is the one its index was computed from
LayoutKept(m) == Cached(m) => Pattern(obj.params[m]) = computedFrom[m]

NoCall == [op |-> "none", m |-> "none", ret |-> <<>>, err |-> "none",
           hit |-> FALSE, kept |-> FALSE, nargs |-> 0]

\* `last` records the calls the top-level caller makes (not those of a block):
\* ret = the list a get returned, hit = the index was cached before the call,
\* kept = the layout was kept then
Observe(op, m, nargs, ret, err) ==
    last' = IF pc = "idle"
            THEN [op |-> op, m |-> m, ret |-> ret, err |-> err,
                  hit |-> Cached(m), kept |-> LayoutKept(m), nargs |-> nargs]
            ELSE last

\* the history of index computations
Computed(m, computed) ==
    /\ computes' = IF computed /\ computes[m] < MaxComputes
                   THEN [computes EXCEPT ![m] = @ + 1] ELSE computes
    /\ computedFrom' = IF computed
                       THEN [computedFrom EXCEPT ![m] = Pattern(obj.params[m])]
                       ELSE computedFrom

\* the object as constructed, before any index exists
NewObject(f, t) ==
    [params |-> [m \in MethodNames |-> IF m = "forward" THEN f ELSE t],
     has_unique_params_idxs |-> FALSE,
     unique_params_idxs |-> <<>>,
     unique_params_maps |-> <<>>,
     number_of_params |-> <<>>]

InitRegistry ==
    /\ obj \in {NewObject(f, t) : f \in ListsOf(Tensors, NParams("forward")),
                                  t \in ListsOf(Tensors, NParams("transpose"))}
    /\ pc = "idle"
    /\ scope = NoScope
    /\ traced = FALSE
    /\ last = NoCall
    /\ computes = [m \in MethodNames |-> 0]
    /\ computedFrom = [m \in MethodNames |-> <<>>]
    /\ ivp = NoSolve

\* the caller (outside a scope, or inside the block of one) calls getparams
GetParams(m) ==
    /\ pc \in {"idle", "block"}
    /\ Observe("getparams", m, 0, getparams(obj, m), "none")
    /\ UNCHANGED <<obj, pc, scope, traced, computes, computedFrom, ivp>>

SetParams(m, ps) ==
    /\ pc \in {"idle", "block"}
    /\ LET r == setparams(obj, m, ps)
       IN  /\ obj' = r.self
           /\ Observe("setparams", m, Len(ps), <<>>, r.err)
    /\ UNCHANGED <<pc, scope, traced, computes, computedFrom, ivp>>

GetUniqueParams(m) ==
    /\ pc \in {"idle", "block"}
    /\ LET r == getuniqueparams(obj, m)
       IN  /\ obj' = r.self
           /\ Observe("getuniqueparams", m, 0, r.ret, r.err)
           /\ Computed(m, r.computed)
    /\ UNCHANGED <<pc, scope, traced, ivp>>

SetUniqueParams(m, ups) ==
    /\ pc \in {"idle", "block"}
    /\ LET r == setuniqueparams(obj, m, ups)
       IN  /\ obj' = r.self
           /\ Observe("setuniqueparams", m, Len(ups), <<>>, r.err)
    /\ UNCHANGED <<pc, scope, traced, computes, computedFrom, ivp>>

\* obj.setuniqueparams(m, *obj.getuniqueparams(m)), the round trip
roundtrip(self, methodname) ==
    LET g == getuniqueparams(self, methodname)
        s == setuniqueparams(g.self, methodname, g.ret)
    IN  [self |-> s.self, ret |-> s.ret, err |-> s.err, computed |-> g.computed]

RoundTrip(m) ==
    /\ pc \in {"idle", "block"}
    /\ LET r == roundtrip(obj, m)
       IN  /\ obj' = r.self
           /\ Observe("roundtrip", m, 0, <<>>, r.err)
           /\ Computed(m, r.computed)
    /\ UNCHANGED <<pc, scope, traced, ivp>>

\* the tensors alive: those of the slots, those held by the open with
\* statements, those the caller holds
RECURSIVE FrameIds(_)
FrameIds(frame) ==
    {frame.orig[k] : k \in 1..Len(frame.orig)}
    \cup {frame.pre[k] : k \in 1..Len(frame.pre)}
    \cup (IF frame.outer = <<>> THEN {} ELSE FrameIds(frame.outer[1]))

LiveIds ==
    Tensors \cup FrameIds(scope)
    \cup UNION {{obj.params[m][k] : k \in 1..Len(obj.params[m])} : m \in MethodNames}

\* MaxDepth bounds the with statements open and the clones alive together:
\* clones that are alive count as one level
CloneLevel == IF LiveIds \subseteq Tensors \cup {None} THEN 0 ELSE 1

\* a new tensor is base + 1, base + 2, ...: above every tensor alive
FreshBase == CHOOSE x \in LiveIds : \A y \in LiveIds : y <= x

\* with obj.useparams(m, *ps):  up to the start of the block
UseParamsEnter(m, ps) ==
    /\ pc \in {"idle", "block"}
    /\ Depth(scope) + CloneLevel < MaxDepth
    /\ LET pre == getuniqueparams(obj, m).ret
           r   == useparams_enter(obj, m, ps)
       IN  /\ obj' = r.self
           /\ scope' = [methodname |-> m, orig |-> r.orig, pre |-> pre,
                        thrown |-> IF r.yielded THEN "none" ELSE "enter",
                        changed |-> FALSE,
                        outer |-> IF pc = "block" THEN <<scope>> ELSE <<>>]
           /\ pc' = IF r.yielded THEN "block" ELSE "raised"
           /\ traced' = r.traced
           /\ Computed(m, r.computed)
    /\ last' = NoCall
    /\ UNCHANGED ivp

\* the block ends (completes, or raises) and the with statement is left
UseParamsExit(thrown) ==
    /\ pc = "block"
    /\ LET r == useparams_exit(obj, scope.methodname, scope.orig, thrown)
       IN  /\ obj' = r.self
           /\ traced' = r.traced
           /\ pc' = IF r.raised THEN "raised" ELSE "after"
           /\ scope' = [scope EXCEPT !.thrown = thrown,
                                     !.changed = (r.self.params # obj.params)]
    /\ UNCHANGED <<last, computes, computedFrom, ivp>>

\* the caller goes on after the with statement, or handles what it raised:
\* at top level, or in the block of the with statement around it
Resume ==
    /\ pc \in {"after", "raised"}
    /\ pc' = IF scope.outer = <<>> THEN "idle" ELSE "block"
    /\ scope' = IF scope.outer = <<>> THEN NoScope ELSE scope.outer[1]
    /\ traced' = FALSE
    /\ UNCHANGED <<obj, last, computes, computedFrom, ivp>>

\* the clones of one call fit the bounds: no earlier clone is alive still,
\* there are no more than MaxClones of them, and a level is left for them
RoomForClones ==
    /\ FreshBase = NTensors
    /\ Len(get_tensors(obj)) <= MaxClones
    /\ Depth(scope) < MaxDepth

\* list_operating_params(obj.<some method>)
ListOperatingParams(fails) ==
    /\ pc \in {"idle", "block"}
    /\ fails = "second" => RoomForClones
    /\ obj' = list_operating_params(obj, FreshBase, fails).self
    /\ last' = NoCall
    /\ UNCHANGED <<pc, scope, traced, computes, computedFrom, ivp>>

\* find_missing_parameters(obj.m)
FindMissingParameters(m, fails) ==
    /\ pc \in {"idle", "block"}
    /\ fails = "second" => RoomForClones
    /\ LET r == find_missing_parameters(obj, m, FreshBase, fails)
       IN  /\ obj' = r.self
           /\ Computed(m, r.computed)
    /\ last' = NoCall
    /\ UNCHANGED <<pc, scope, traced, ivp>>

NextRegistry ==
    \/ \E m \in MethodNames : GetParams(m)
    \/ \E m \in MethodNames : \E ps \in ListsOf(Tensors, NParams(m)) : SetParams(m, ps)
    \/ \E m \in MethodNames : GetUniqueParams(m)
    \/ \E m \in MethodNames : \E ups \in ListsUpTo(Tensors, NParams(m)) : SetUniqueParams(m, ups)
    \/ \E m \in MethodNames : RoundTrip(m)
    \/ \E m \in MethodNames : \E ps \in ListsUpTo(Tensors, NParams(m)) : UseParamsEnter(m, ps)
    \/ \E thrown \in {"none", "Exception", "BaseException"} : UseParamsExit(thrown)
    \/ \E fails \in {"never", "first", "second"} : ListOperatingParams(fails)
    \/ \E m \in MethodNames : \E fails \in {"never", "first", "second"} :
           FindMissingParameters(m, fails)
    \/ Resume

SpecRegistry == InitRegistry /\ [][NextRegistry]_vars

\* ------------------------------------------------------ solve_ivp actions
\* solve_ivp(fcn, ts, y0, params, fwd_options, bck_options): _SolveIVP.forward
\* on nparams user parameters followed by the object parameters
SolveIvp(fwd_options, bck_options, kinds, nparams, nt, ts_requires_grad) ==
    /\ ivp.pc = "Created"
    /\ LET r == forward(fwd_options, bck_options)
       IN  ivp' = [ivp EXCEPT
                     !.pc = IF r.ok THEN "ForwardRun" ELSE "Failed",
                     !.fwd_options = fwd_options,
                     !.bck_options = bck_options,
                     !.kinds = kinds,
                     !.nparams = nparams,
                     !.nt = nt,
                     !.ts_requires_grad = ts_requires_grad,
                     !.bck_config = r.bck_config,
                     !.solver = r.solver,
                     !.solver_config = r.config,
                     !.raised = r.raised]
    /\ UNCHANGED regvars

\* backward up to its loop: the augmented state at the last grid index
BackwardBegin ==
    /\ ivp.pc = "ForwardRun"
    /\ LET ntensor_params == Len(tensor_idxs(ivp.kinds))
           t_flip_idx == -1
       IN  ivp' = [ivp EXCEPT
                     !.pc = "BackwardRun",
                     !.i = 0,
                     !.t_flip_idx = t_flip_idx,
                     !.y = PyIndex(ivp.nt, t_flip_idx),
                     !.dLdy = <<PyIndex(ivp.nt, t_flip_idx)>>,
                     !.dLdt = G("zeros"),
                     !.dLdp = [k \in 1..ntensor_params |-> GAt("zeros", k - 1)],
                     !.grad_ts = IF ivp.ts_requires_grad
                                 THEN [k \in 1..ivp.nt |-> G("None")]
                                 ELSE <<>>]
    /\ UNCHANGED regvars

\* one iteration of the loop of backward, its recursive solve_ivp included
BackwardStep ==
    /\ ivp.pc = "BackwardRun"
    /\ ivp.i < ivp.nt - 1
    /\ LET at         == PyIndex(ivp.nt, ivp.t_flip_idx)
           grad_ts1   == IF ivp.ts_requires_grad
                         THEN [ivp.grad_ts EXCEPT ![at + 1] = GAt("dLdt1", at)]
                         ELSE ivp.grad_ts
           dLdt1      == IF ivp.ts_requires_grad THEN G("adjoint") ELSE ivp.dLdt
           \* what the dot product dLdt1 was taken from, and where it went
           writes1    == IF ivp.ts_requires_grad
                         THEN Append(ivp.grad_ts_writes,
                                     [idx |-> at,
                                      t |-> At(ts_flip(ivp.nt), ivp.i),
                                      y |-> ivp.y,
                                      grad_yt |-> PyIndex(ivp.nt, ivp.t_flip_idx)])
                         ELSE ivp.grad_ts_writes
           t_flip_idx == ivp.t_flip_idx - 1
           sub        == forward(ivp.bck_config, ivp.bck_config)
           pair       == Slice(ts_flip(ivp.nt), ivp.i, ivp.i + 2)
           call       == [t_from |-> At(pair, 0),
                          t_to |-> At(pair, 1),
                          y |-> ivp.y,
                          fwd_options |-> ivp.bck_config,
                          bck_options |-> ivp.bck_config,
                          solver |-> sub.solver,
                          config |-> sub.config]
       IN  IF sub.ok
           THEN ivp' = [ivp EXCEPT
                          !.i = ivp.i + 1,
                          !.t_flip_idx = t_flip_idx,
                          !.grad_ts = grad_ts1,
                          !.grad_ts_writes = writes1,
                          !.subsolves = Append(@, call),
                          !.y = PyIndex(ivp.nt, t_flip_idx),
                          !.dLdy = Append(@, PyIndex(ivp.nt, t_flip_idx)),
                          !.dLdt = G("adjoint"),
                          !.dLdp = [k \in 1..Len(ivp.dLdp) |-> GAt("adjoint", k - 1)]]
           ELSE ivp' = [ivp EXCEPT
                          !.pc = "Failed",
                          !.t_flip_idx = t_flip_idx,
                          !.grad_ts = grad_ts1,
                          !.grad_ts_writes = writes1,
                          !.dLdt = dLdt1,
                          !.subsolves = Append(@, call),
                          !.raised = sub.raised]
    /\ UNCHANGED regvars

\* backward after its loop: the gradients it returns
BackwardEnd ==
    /\ ivp.pc = "BackwardRun"
    /\ ivp.i >= ivp.nt - 1
    /\ LET grad_ts == backward_grad_ts0(ivp.ts_requires_grad, ivp.grad_ts, ivp.dLdt)
           \* the write of entry 0, taken from no dot product
           writes  == IF grad_ts # ivp.grad_ts
                      THEN Append(ivp.grad_ts_writes,
                                  [idx |-> 0, t |-> -1, y |-> -1, grad_yt |-> -1])
                      ELSE ivp.grad_ts_writes
       IN  IF ivp.ts_requires_grad /\ \E k \in 1..Len(grad_ts) : grad_ts[k].g = "None"
           THEN \* torch.cat of a list that holds None
                ivp' = [ivp EXCEPT !.pc = "Failed", !.grad_ts = grad_ts,
                                   !.grad_ts_writes = writes,
                                   !.raised = [type |-> "TypeError", arg |-> <<"c", "a", "t">>]]
           ELSE ivp' = [ivp EXCEPT
                          !.pc = "Done",
                          !.grad_ts = grad_ts,
                          !.grad_ts_writes = writes,
                          !.grad_y0 = ivp.dLdy,
                          !.grad_ts_out = IF ivp.ts_requires_grad
                                          THEN G("tensor") ELSE G("None"),
                          !.grad_params = backward_grad_params(ivp.kinds, ivp.dLdp)]
    /\ UNCHANGED regvars

InitIVP ==
    /\ obj = NewObject([k \in 1..NParams("forward") |-> 1],
                       [k \in 1..NParams("transpose") |-> 1])
    /\ pc = "idle"
    /\ scope = NoScope
    /\ traced = FALSE
    /\ last = NoCall
    /\ computes = [m \in MethodNames |-> 0]
    /\ computedFrom = [m \in MethodNames |-> <<>>]
    /\ ivp = NoSolve

NextIVP ==
    \/ /\ ivp.pc = "Created"
       /\ \E fwd_options \in OptionDicts : \E bck_options \in OptionDicts :
          \E kinds \in ListsUpTo(ParamKinds, MaxParams) : \E nparams \in 0..Len(kinds) :
          \E nt \in 1..MaxNt : \E ts_requires_grad \in BOOLEAN :
              SolveIvp(fwd_options, bck_options, kinds, nparams, nt, ts_requires_grad)
    \/ BackwardBegin
    \/ BackwardStep
    \/ BackwardEnd

SpecIVP == InitIVP /\ [][NextIVP]_vars

\* ------------------------------------------------------ registry properties
AllTensors(p) == \A k \in 1..Len(p) : p[k] # None

HasAlias(p) == \E i, j \in 1..Len(p) : i # j /\ p[i] = p[j]

\* u lists every distinct tensor of p exactly once, in order of first occurrence
IsDedupOf(u, p) ==
    /\ \A a, b \in 1..Len(u) : a # b => u[a] # u[b]
    /\ {u[a] : a \in 1..Len(u)} = {p[k] : k \in 1..Len(p)}
    /\ \A a \in 1..Len(u) : \E k \in 1..Len(p) :
           /\ p[k] = u[a]
           /\ FirstOcc(p, k) = k
           /\ GroupNo(p, k) = a

\* C1 as stated: in any reachable state, setuniqueparams(m, *getuniqueparams(m))
\* leaves the list getparams(m) returns unchanged at every position.
C1_RoundTripAlways ==
    [][\A m \in MethodNames : RoundTrip(m) => obj'.params[m] = obj.params[m]]_vars

\* C1 amended: the round trip leaves getparams(m) unchanged whenever the
\* identity pattern of getparams(m) is the one the index of m was computed from
\* (which includes the call that computes the index).
C1_RoundTripLayoutKept ==
    [][\A m \in MethodNames :
          (LayoutKept(m) /\ RoundTrip(m)) => obj'.params[m] = obj.params[m]]_vars

C1_Witness ==
    /\ pc = "idle"
    /\ last.op = "roundtrip" /\ last.m = "forward" /\ last.err = "none"
    /\ last.hit /\ last.kept
    /\ Pattern(obj.params["forward"]) = <<1, 2, 1>>

\* what C2 asks of a setuniqueparams(m, *ups) step: every position of the
\* parameter list holds the supplied tensor of the alias group it was in, so
\* positions that held the identical tensor hold the same supplied tensor
AliasesWritten(m, ups) ==
    /\ \A k \in 1..Len(obj.params[m]) :
           obj'.params[m][k] = ups[GroupNo(obj.params[m], k)]
    /\ \A i, j \in 1..Len(obj.params[m]) :
           obj.params[m][i] = obj.params[m][j] => obj'.params[m][i] = obj'.params[m][j]

\* C2 as stated: whenever getparams(m) holds tensors and getuniqueparams(m) has
\* given the caller the count, a setuniqueparams(m, ...) call with exactly that
\* many tensors writes to every position the supplied tensor of the position's
\* current alias group.
C2_AliasPropagationAlways ==
    [][\A m \in MethodNames :
          (Cached(m) /\ AllTensors(obj.params[m])) =>
              \A ups \in ListsOf(Tensors, Len(getuniqueparams(obj, m).ret)) :
                  SetUniqueParams(m, ups) => AliasesWritten(m, ups)]_vars

\* C2 amended: the same, provided the identity pattern of getparams(m) is the
\* one the index of m was computed from.
C2_AliasPropagationLayoutKept ==
    [][\A m \in MethodNames :
          (Cached(m) /\ LayoutKept(m)) =>
              \A ups \in ListsOf(Tensors, Len(getuniqueparams(obj, m).ret)) :
                  SetUniqueParams(m, ups) => AliasesWritten(m, ups)]_vars

C2_Witness ==
    /\ pc = "idle"
    /\ last.op = "setuniqueparams" /\ last.m = "forward" /\ last.err = "none"
    /\ last.hit /\ last.kept
    /\ last.nargs = Len(obj.unique_params_idxs["forward"])
    /\ computedFrom["forward"] = <<1, 1, 2>>
    /\ obj.params["forward"][1] # obj.params["forward"][3]

\* C3: once a useparams scope is left (the block completed, the block raised,
\* or the substitution failed before the block), getuniqueparams of the scope's
\* method returns what it returned just before the scope was entered.
C3_ScopedRestore ==
    pc \in {"after", "raised"} =>
        getuniqueparams(obj, scope.methodname).ret = scope.pre

C3_Witness ==
    /\ pc = "raised" /\ scope.thrown = "BaseException"
    /\ scope.outer # <<>>
    /\ scope.changed
    /\ Len(scope.pre) = 2
    /\ HasAlias(obj.params[scope.methodname])

\* C7 as stated: in every reachable state where getparams(m) holds tensors,
\* getuniqueparams(m) returns every distinct tensor of the current getparams(m)
\* exactly once, in first-occurrence order.
C7_UniqueAlways ==
    \A m \in MethodNames :
        AllTensors(getparams(obj, m)) =>
            IsDedupOf(getuniqueparams(obj, m).ret, getparams(obj, m))

\* C7 amended: the same, provided the identity pattern of getparams(m) is the
\* one the index of m was computed from.
C7_UniqueLayoutKept ==
    \A m \in MethodNames :
        LayoutKept(m) => IsDedupOf(getuniqueparams(obj, m).ret, getparams(obj, m))

C7_Witness ==
    /\ pc = "idle"
    /\ last.op = "getuniqueparams" /\ last.m = "forward"
    /\ last.hit /\ last.kept
    /\ Len(last.ret) = 2
    /\ Pattern(obj.params["forward"]) = <<1, 2, 1>>

\* C8: an Exception raised inside the block of a useparams scope is traced and
\* not re-raised: the caller is past the with statement, and the original
\* unique parameters are back.
C8_BlockExceptionSuppressed ==
    (pc \in {"after", "raised"} /\ scope.thrown = "Exception") =>
        /\ pc = "after"
        /\ traced
        /\ getuniqueparams(obj, scope.methodname).ret = scope.orig

C8_Witness ==
    /\ pc = "after" /\ scope.thrown = "Exception" /\ traced
    /\ scope.changed
    /\ scope.methodname = "forward"

\* C10: the index of a method is computed once, by the first getuniqueparams
\* for it (called by the caller, or by useparams or find_missing_parameters); every later call finds the same index, parameter count included;
\* and the index equals a fresh computation's as long as the layout is kept.
C10_ComputedOnce ==
    \A m \in MethodNames :
        /\ computes[m] <= 1
        /\ Cached(m) <=> computes[m] = 1
        /\ (Cached(m) /\ LayoutKept(m)) =>
               /\ obj.unique_params_idxs[m] = FreshIndex(obj.params[m]).idxs
               /\ obj.unique_params_maps[m] = FreshIndex(obj.params[m]).idx_map
               /\ obj.number_of_params[m] = Len(obj.params[m])

C10_IndexStep ==
    \A m \in MethodNames :
        /\ Cached(m) => (Cached(m)' /\ CachedIndex(m)' = CachedIndex(m))
        /\ (~Cached(m) /\ Cached(m)') =>
               /\ \/ GetUniqueParams(m)
                  \/ RoundTrip(m)
                  \/ \E ps \in ListsUpTo(Tensors, NParams(m)) : UseParamsEnter(m, ps)
                  \/ FindMissingParameters(m, "never")
               /\ CachedIndex(m)' = [idxs |-> FreshIndex(obj.params[m]).idxs,
                                     idx_map |-> FreshIndex(obj.params[m]).idx_map,
                                     nparams |-> Len(obj.params[m])]

C10_IndexStable == []C10_ComputedOnce /\ [][C10_IndexStep]_vars

C10_Witness ==
    /\ pc = "idle"
    /\ last.op = "getuniqueparams" /\ last.m = "forward" /\ last.hit
    /\ ~last.kept
    /\ computes["forward"] = 1
    /\ Cached("transpose")

\* ----------------------------------------------------- solve_ivp properties
\* the method the caller of the solve asked for (the default when none is given)
RequestedMethod ==
    IF "method" \in DOMAIN ivp.fwd_options THEN ivp.fwd_options["method"] ELSE rk45

\* C5: a solve whose method is outside {rk4, rk38, rk23, rk45} (compared
\* case-insensitively) fails with RuntimeError 'Unknown solve_ivp method' naming
\* the offending value, and no stepping strategy is invoked.
C5_UnknownMethodNamed ==
    (ivp.pc # "Created" /\ Lower(RequestedMethod) \notin Solvers) =>
        /\ ivp.pc = "Failed"
        /\ ivp.raised = [type |-> "RuntimeError", arg |-> RequestedMethod]
        /\ ivp.solver = <<>>

\* C6 as stated: backward returns one gradient per parameter position, and at
\* every non-tensor position an explicit zero, never None.
C6_NonTensorZero ==
    ivp.pc = "Done" =>
        /\ Len(ivp.grad_params) = Len(ivp.kinds)
        /\ \A k \in 1..Len(ivp.kinds) :
               ivp.kinds[k] = "other" => ivp.grad_params[k].g = "zeros"

\* how many tensor parameters (requiring grad) precede position k
VarsBefore(kinds, k) == Cardinality({h \in 1..(k - 1) : kinds[h] = "var"})

\* C6 amended: backward returns one gradient per parameter position, in the
\* original order: at the position of a tensor that requires grad, that
\* tensor's adjoint (a tensor, never None); at every other position None.
C6_NonTensorNone ==
    ivp.pc = "Done" =>
        /\ Len(ivp.grad_params) = Len(ivp.kinds)
        /\ \A k \in 1..Len(ivp.kinds) :
               IF ivp.kinds[k] = "var"
               THEN /\ ivp.grad_params[k].g \in {"zeros", "adjoint"}
                    /\ ivp.grad_params[k].at = VarsBefore(ivp.kinds, k)
                    /\ ivp.grad_params[k].g = "zeros" <=> ivp.nt = 1
               ELSE ivp.grad_params[k] = G("None")

C6_Witness ==
    /\ ivp.pc = "Done"
    /\ ivp.kinds = <<"other", "var">>
    /\ ivp.nparams = 1
    /\ ivp.nt > 1

\* C9 as stated: the options every sub-solve of backward gets, as fwd_options
\* and as bck_options, are the caller's bck_options (over the default method):
\* nothing supplied only in fwd_options is among them.
C9_SubSolveConfigIndependent ==
    \A n \in 1..Len(ivp.subsolves) :
        LET c == ivp.subsolves[n].fwd_options
        IN  /\ ivp.subsolves[n].bck_options = c
            /\ \A k \in DOMAIN c :
                   IF k \in DOMAIN ivp.bck_options
                   THEN c[k] = ivp.bck_options[k]
                   ELSE k = "method" /\ c[k] = rk45

\* C9 amended: the options every sub-solve gets, as fwd_options and as
\* bck_options, are the caller's bck_options over the forward configuration:
\* an option holds bck_options' value if given there, else fwd_options' value
\* if given there, else the default (method rk45); no other option appears.
C9_SubSolveConfigInherits ==
    \A n \in 1..Len(ivp.subsolves) :
        LET c == ivp.subsolves[n].fwd_options
        IN  /\ ivp.subsolves[n].bck_options = c
            /\ DOMAIN c = (DOMAIN ivp.bck_options) \cup (DOMAIN ivp.fwd_options) \cup {"method"}
            /\ \A k \in DOMAIN c :
                   IF k \in DOMAIN ivp.bck_options THEN c[k] = ivp.bck_options[k]
                   ELSE IF k \in DOMAIN ivp.fwd_options THEN c[k] = ivp.fwd_options[k]
                   ELSE c[k] = rk45

C9_Witness ==
    /\ Len(ivp.subsolves) = 2
    /\ DOMAIN ivp.fwd_options = {"method", "rtol"}
    /\ DOMAIN ivp.bck_options = {"method"}
    /\ ivp.fwd_options["method"] # ivp.bck_options["method"]
    /\ ivp.subsolves[2].solver = rk45

\* ---------------------------------------------------------------------------
\* C12: the index of an (object, operation) pair is built by whichever
\* registry operation touches the pair first: a setuniqueparams(m, ...) made
\* while no index of m exists builds it and succeeds in writing the supplied
\* tensors, as it would after a getuniqueparams(m).
C12_SetBuildsIndex ==
    (last.op = "setuniqueparams" /\ ~last.hit)
        => (last.err = "none" /\ Cached(last.m))

\* ---------------------------------------------------------------------------
\* C11: for a grid of n >= 1 times, backward makes exactly n-1 sub-solves, in
\* descending grid order, the i-th over the pair (t[n-1-i], t[n-2-i]) and
\* starting with the y slot at the stored sample of index n-1-i; for n = 1 it
\* makes none, and returns the upstream gradient of the one sample for y0
\* with zero adjoints for the parameters.
C11_ReverseWalk ==
    /\ ivp.pc \in {"BackwardRun", "Done"} =>
           /\ Len(ivp.subsolves) = ivp.i
           /\ ivp.i <= ivp.nt - 1
           /\ \A k \in 1..Len(ivp.subsolves) :
                  /\ ivp.subsolves[k].t_from = ivp.nt - k
                  /\ ivp.subsolves[k].t_to = ivp.nt - 1 - k
                  /\ ivp.subsolves[k].y = ivp.nt - k
    /\ ivp.pc = "Done" => Len(ivp.subsolves) = ivp.nt - 1
    /\ (ivp.pc = "Done" /\ ivp.nt = 1) =>
           /\ ivp.subsolves = <<>>
           /\ ivp.grad_y0 = <<0>>
           /\ \A k \in 1..Len(ivp.kinds) :
                  ivp.kinds[k] = "var" => ivp.grad_params[k].g = "zeros"

C11_Witness ==
    /\ ivp.pc = "Done"
    /\ ivp.nt >= 3
    /\ Len(ivp.subsolves) = ivp.nt - 1
    /\ ivp.subsolves[2].y = ivp.nt - 2

\* ---------------------------------------------------------------------------
\* C13: when the time grid requires a gradient, backward records one
\* gradient entry for every grid index 0..n-1: the indices n-1 down to 1
\* during the reverse walk, each once and from the dot product taken at that
\* index (its time, its stored sample, its upstream gradient), and index 0
\* after the walk from the accumulated adjointT; no entry is absent when the
\* entries are assembled.  When the grid requires no gradient nothing is
\* recorded and the grid's gradient is absent.
C13_TimeGradComplete ==
    /\ ivp.raised.type # "TypeError"
    /\ (ivp.pc \in {"BackwardRun", "Done"} /\ ivp.ts_requires_grad) =>
           /\ Len(ivp.grad_ts) = ivp.nt
           /\ \A k \in 1..Len(ivp.grad_ts_writes) :
                  LET w == ivp.grad_ts_writes[k]
                  IN  /\ w.idx = ivp.nt - k
                      /\ w.idx > 0 => (w.t = w.idx /\ w.y = w.idx /\ w.grad_yt = w.idx)
           /\ \A x \in 0..(ivp.nt - 1) :
                  At(ivp.grad_ts, x).g # "None"
                      <=> \E k \in 1..Len(ivp.grad_ts_writes) : ivp.grad_ts_writes[k].idx = x
           /\ \A x \in 1..(ivp.nt - 1) :
                  At(ivp.grad_ts, x).g # "None" => At(ivp.grad_ts, x) = GAt("dLdt1", x)
    /\ (ivp.pc = "BackwardRun" /\ ivp.ts_requires_grad) =>
           Len(ivp.grad_ts_writes) = ivp.i
    /\ (ivp.pc = "Done" /\ ivp.ts_requires_grad) =>
           /\ Len(ivp.grad_ts_writes) = ivp.nt
           /\ \A x \in 0..(ivp.nt - 1) : At(ivp.grad_ts, x).g # "None"
           /\ At(ivp.grad_ts, 0) = GAt(IF ivp.nt = 1 THEN "zeros" ELSE "adjoint", 0)
           /\ ivp.grad_ts_out = G("tensor")
    /\ (ivp.pc \in {"BackwardRun", "Done"} /\ ~ivp.ts_requires_grad) =>
           /\ ivp.grad_ts = <<>>
           /\ ivp.grad_ts_writes = <<>>
    /\ (ivp.pc = "Done" /\ ~ivp.ts_requires_grad) => ivp.grad_ts_out = G("None")

C13_Witness ==
    /\ ivp.pc = "Done"
    /\ ivp.ts_requires_grad
    /\ ivp.nt >= 3
    /\ Len(ivp.grad_ts_writes) = ivp.nt
    /\ At(ivp.grad_ts, 1) = GAt("dLdt1", 1)
====
